---- MODULE Spec2Model ----
(***************************************************************************)
(* Aurora Connect: the socket.io signaling relay (pages/api/socket.ts) and *)
(* the CallRoom client component that negotiates a WebRTC call through it. *)
(*                                                                         *)
(* SpecRelay    : the relay alone, driven by arbitrary packets from its    *)
(*                connections.                                             *)
(* Spec         : two CallRoom components and the relay.                   *)
(* SpecRejoin   : Spec with one more click on Start / Join.                *)
(* SpecEdit     : Spec with users who retype the room code.                *)
(* SpecTeardown : one component whose leaveRoom is called directly.        *)
(* SpecReconnect: one component whose signaling transport drops and comes  *)
(*                back; Spec keeps the signaling transport up.             *)
(* SpecGuests   : two components that join once, and a third participant   *)
(*                of which only the packets are modelled.                  *)
(* SpecFull     : two components that join a room two guests are in.       *)
(* SpecIce      : SpecGuests' room with the ICE candidates of the peer     *)
(*                connections.                                             *)
(* SpecToggle   : one component whose toggleAudio and toggleVideo are      *)
(*                called directly.                                         *)
(* SpecLeave    : two components and a guest that joins and leaves.        *)
(* SpecCall     : a two-party call under fair scheduling.                  *)
(***************************************************************************)
EXTENDS Integers, Sequences, FiniteSets, TLC

\* ------------------------------------------------------------------ bounds
NumConns == 5
MaxClicks == 2

\* ------------------------------------------------------- program constants
MAX_ROOM_SIZE == 4

\* ----------------------------------------------------------------- values
Conns == 1 .. NumConns
Clients == {1, 2}
Harnessed == {1}
Guests == {3, 4}
Newcomers == {3}
NoConn == 0
RoomIds == {"A", "B"}
NoRoom == ""
\* a session description or ICE candidate: opaque to the relay
Desc(type, by, re) == [type |-> type, by |-> by, re |-> re]
NoPayload == Desc("none", NoConn, NoConn)
Payloads == {Desc("offer", 1, NoConn), Desc("answer", 2, 1)}
SignalKinds == {"offer", "answer", "ice-candidate"}

VARIABLES
    connected,  \* server: sockets currently connected
    rooms,      \* server: io.sockets.adapter.rooms, room code -> member sockets
    last,       \* relay history: the message handled last
    pre,        \* relay history: rooms before that message
    out         \* relay history: the events that handler emitted, in order

VARIABLES
    client,     \* per CallRoom component: its refs, React state and suspended handlers
    up,         \* per client: packets emitted on its socket, not yet handled by the relay
    down,       \* per client: events the relay emitted to it, not yet dispatched
    hist,       \* per client: history of what it emitted and saw
    clicks      \* number of Start / Join clicks so far

relayVars == <<connected, rooms, last, pre, out>>
clientVars == <<client, up, down, hist, clicks>>
vars == <<connected, rooms, last, pre, out, client, up, down, hist, clicks>>

\* ------------------------------------------------------------ relay helpers
RECURSIVE SetToSeq(_)
SetToSeq(S) ==
    IF S = {} THEN <<>>
    ELSE LET m == CHOOSE x \in S : \A y \in S : x <= y
         IN <<m>> \o SetToSeq(S \ {m})

Event(to, ev, pid, n, p) ==
    [to |-> to, ev |-> ev, participantId |-> pid, participants |-> n, payload |-> p]

RoomSize(rms, r) == Cardinality(rms[r])

\* socket.to(roomId).emit(ev, ...): every member of roomId except the sender
BroadcastExceptSender(rms, r, c, ev, n, p) ==
    LET targets == SetToSeq(rms[r] \ {c})
    IN [i \in 1 .. Len(targets) |-> Event(targets[i], ev, c, n, p)]

\* io.to(roomId).emit(ev, ...): every member of roomId
BroadcastAll(rms, r, c, ev, n, p) ==
    LET targets == SetToSeq(rms[r])
    IN [i \in 1 .. Len(targets) |-> Event(targets[i], ev, c, n, p)]

RoomIsFull_Off(occupants) == occupants > MAX_ROOM_SIZE
RoomIsFull(occupants) == occupants >= MAX_ROOM_SIZE

OnJoin_FullStillJoins(rms, c, r) ==
    IF r = NoRoom THEN [rooms |-> rms, emits |-> <<>>]
    ELSE IF RoomIsFull(RoomSize(rms, r))
    THEN [rooms |-> [rms EXCEPT ![r] = @ \cup {c}],
          emits |-> <<Event(c, "room-full", NoConn, 0, NoPayload)>>]
    ELSE LET joined == [rms EXCEPT ![r] = @ \cup {c}]
             updatedOccupants == RoomSize(joined, r)
         IN [rooms |-> joined,
             emits |-> <<Event(c, "joined-room", NoConn, updatedOccupants, NoPayload)>>
                       \o BroadcastExceptSender(joined, r, c, "peer-joined",
                                                updatedOccupants, NoPayload)]

OnJoin_IoTo(rms, c, r) ==
    IF r = NoRoom THEN [rooms |-> rms, emits |-> <<>>]
    ELSE IF RoomIsFull(RoomSize(rms, r))
    THEN [rooms |-> rms, emits |-> <<Event(c, "room-full", NoConn, 0, NoPayload)>>]
    ELSE LET joined == [rms EXCEPT ![r] = @ \cup {c}]
             updatedOccupants == RoomSize(joined, r)
         IN [rooms |-> joined,
             emits |-> <<Event(c, "joined-room", NoConn, updatedOccupants, NoPayload)>>
                       \o BroadcastAll(joined, r, c, "peer-joined",
                                       updatedOccupants, NoPayload)]

\* socket.on("join")
OnJoin(rms, c, r) ==
    IF r = NoRoom THEN [rooms |-> rms, emits |-> <<>>]
    ELSE IF RoomIsFull(RoomSize(rms, r))
    THEN [rooms |-> rms, emits |-> <<Event(c, "room-full", NoConn, 0, NoPayload)>>]
    ELSE LET joined == [rms EXCEPT ![r] = @ \cup {c}]
             updatedOccupants == RoomSize(joined, r)
         IN [rooms |-> joined,
             emits |-> <<Event(c, "joined-room", NoConn, updatedOccupants, NoPayload)>>
                       \o BroadcastExceptSender(joined, r, c, "peer-joined",
                                                updatedOccupants, NoPayload)]

\* socket.on("leave")
OnLeave(rms, c, r) ==
    IF r = NoRoom THEN [rooms |-> rms, emits |-> <<>>]
    ELSE LET left == [rms EXCEPT ![r] = @ \ {c}]
         IN [rooms |-> left,
             emits |-> BroadcastExceptSender(left, r, c, "peer-left", 0, NoPayload)]

\* ack?.() after an offer or answer was relayed
Ack(kind, c, ack) ==
    IF ack /\ kind \in {"offer", "answer"}
    THEN <<Event(c, "ack", NoConn, 0, NoPayload)>> ELSE <<>>

OnSignal_IoTo(rms, kind, c, r, p, ack) ==
    IF r = NoRoom \/ p = NoPayload THEN [rooms |-> rms, emits |-> <<>>]
    ELSE [rooms |-> rms,
          emits |-> BroadcastAll(rms, r, c, kind, 0, p) \o Ack(kind, c, ack)]

\* socket.on("offer"), socket.on("answer"), socket.on("ice-candidate")
OnSignal(rms, kind, c, r, p, ack) ==
    IF r = NoRoom \/ p = NoPayload THEN [rooms |-> rms, emits |-> <<>>]
    ELSE [rooms |-> rms,
          emits |-> BroadcastExceptSender(rms, r, c, kind, 0, p) \o Ack(kind, c, ack)]

\* socket.rooms without the socket's own room (roomId === socket.id); room
\* codes are never socket ids
SocketRooms(rms, c) == {r \in RoomIds : c \in rms[r]}

RECURSIVE PeerLeftForRooms(_, _, _)
PeerLeftForRooms(rms, c, rs) ==
    IF Len(rs) = 0 THEN <<>>
    ELSE BroadcastExceptSender(rms, Head(rs), c, "peer-left", 0, NoPayload)
         \o PeerLeftForRooms(rms, c, Tail(rs))

RoomOrder(R) ==
    LET RECURSIVE ord(_)
        ord(S) == IF S = {} THEN <<>>
                  ELSE LET r == CHOOSE x \in S : \A y \in S : (x = "A") \/ (y # "A")
                       IN <<r>> \o ord(S \ {r})
    IN ord(R)

\* the handler bound to "disconnect": socket.rooms is already empty by then
OnDisconnecting_AfterLeave(rms, c) ==
    [rooms |-> [r \in RoomIds |-> rms[r] \ {c}], emits |-> <<>>]

\* socket.on("disconnecting"), then socket.io drops the socket from its rooms
OnDisconnecting(rms, c) ==
    [rooms |-> [r \in RoomIds |-> rms[r] \ {c}],
     emits |-> PeerLeftForRooms(rms, c, RoomOrder(SocketRooms(rms, c)))]

\* a history count: 0, 1, or 2 for two or more
Counted(n) == IF n = 0 THEN 1 ELSE 2

\* a packet a client emits on its socket
Msg(kind, c, r, p, ack) ==
    [kind |-> kind, conn |-> c, roomId |-> r, payload |-> p, ack |-> ack]

\* ------------------------------------------------- RTCPeerConnection (peerRef)
\* remoteOffers counts the offers this connection applied as remote description,
\* remoteAnswers the answers it applied to its current local offer, candidates
\* the remote ICE candidates it applied; gathered: it has found its own candidate
NoPeer ==
    [sig |-> "null", remote |-> NoPayload, pendRemote |-> NoPayload,
     local |-> NoPayload, conn |-> "closed", remoteOffers |-> 0, remoteAnswers |-> 0,
     candidates |-> 0, gathered |-> FALSE]
\* new RTCPeerConnection(...)
NewPeer ==
    [sig |-> "stable", remote |-> NoPayload, pendRemote |-> NoPayload,
     local |-> NoPayload, conn |-> "new", remoteOffers |-> 0, remoteAnswers |-> 0,
     candidates |-> 0, gathered |-> FALSE]

\* addIceCandidate(candidate): rejected while the connection has no remote
\* description
AddIceCandidate(p, candidate) ==
    IF p.remote # NoPayload \/ p.pendRemote # NoPayload
    THEN [ok |-> TRUE, peer |-> [p EXCEPT !.candidates = Counted(@)]]
    ELSE [ok |-> FALSE, peer |-> p]

\* setLocalDescription(offer)
SetLocalOffer(p, d) ==
    IF p.sig \in {"stable", "have-local-offer"}
    THEN {[ok |-> TRUE, peer |-> [p EXCEPT !.sig = "have-local-offer", !.local = d,
                                           !.remoteAnswers = 0]]}
    ELSE {[ok |-> FALSE, peer |-> p]}

\* setRemoteDescription(offer); against a pending local offer a browser either
\* rolls the local offer back or rejects with InvalidStateError
SetRemoteOffer(p, d) ==
    LET applied == [p EXCEPT !.sig = "have-remote-offer", !.pendRemote = d,
                             !.remoteOffers = Counted(@)]
    IN CASE p.sig \in {"stable", "have-remote-offer"} -> {[ok |-> TRUE, peer |-> applied]}
         [] p.sig = "have-local-offer" ->
                {[ok |-> TRUE, peer |-> [applied EXCEPT !.local = NoPayload]],
                 [ok |-> FALSE, peer |-> p]}
         [] OTHER -> {[ok |-> FALSE, peer |-> p]}

\* createAnswer(): answers the pending remote offer
CreateAnswer(p, c) ==
    IF p.sig = "have-remote-offer"
    THEN [ok |-> TRUE, desc |-> Desc("answer", c, p.pendRemote.by)]
    ELSE [ok |-> FALSE, desc |-> NoPayload]

\* setLocalDescription(answer)
SetLocalAnswer(p, d) ==
    IF p.sig = "have-remote-offer"
    THEN [ok |-> TRUE,
          peer |-> [p EXCEPT !.sig = "stable", !.remote = p.pendRemote,
                             !.pendRemote = NoPayload, !.local = d,
                             !.remoteAnswers = 0]]
    ELSE [ok |-> FALSE, peer |-> p]

SetRemoteAnswer_AnyState(p, d) ==
    IF p.sig \in {"have-local-offer", "stable"}
    THEN [ok |-> TRUE, peer |-> [p EXCEPT !.sig = "stable", !.remote = d,
                                          !.remoteAnswers = Counted(@)]]
    ELSE [ok |-> FALSE, peer |-> p]

\* setRemoteDescription(answer)
SetRemoteAnswer(p, d) ==
    IF p.sig = "have-local-offer"
    THEN [ok |-> TRUE, peer |-> [p EXCEPT !.sig = "stable", !.remote = d,
                                          !.remoteAnswers = Counted(@)]]
    ELSE [ok |-> FALSE, peer |-> p]

\* --------------------------------------------------------- CallRoom component
Task(kind, pos, desc, room) ==
    [kind |-> kind, pos |-> pos, desc |-> desc, room |-> room, pcClosed |-> FALSE]

\* positions at which a handler waits for an operation of the peer connection
PeerOps == {"createOffer", "setLocalOffer", "setRemoteOffer", "createAnswer",
            "setLocalAnswer", "setRemoteAnswer", "addIce"}

\* reconnectTimeout.current = null
NoTimer == 0

\* the component after its first render; initialRoomId is the room of the URL.
\* sock is the socket behind socketRef ("null": socketRef.current is null),
\* timers the pending setTimeout callbacks, sendBuffer the packets the socket
\* holds back while it is disconnected
InitialClient(initialRoomId) ==
    [life |-> "mounted", sock |-> "null", roomId |-> initialRoomId, peer |-> NoPeer,
     localStream |-> FALSE, remoteStream |-> FALSE,
     status |-> "Idle", error |-> "", participants |-> 0,
     isJoining |-> FALSE, isConnected |-> FALSE,
     audioEnabled |-> TRUE, videoEnabled |-> TRUE,
     audioTrack |-> TRUE, videoTrack |-> TRUE, tasks |-> <<>>,
     reconnectTimeout |-> NoTimer, timers |-> {}, sendBuffer |-> <<>>]

\* a context: the component state and the packets emitted during one handler
Cx(s, sent) == [s |-> s, sent |-> sent]

\* setState is ignored once the component is unmounted; refs stay writable
SetStatus(s, st) == IF s.life = "mounted" THEN [s EXCEPT !.status = st] ELSE s
SetError(s, e) == IF s.life = "mounted" THEN [s EXCEPT !.error = e] ELSE s

\* closePeerConnection: operations pending on the closed connection never
\* settle; handlers that captured it hold a closed connection
ClosePeerConnection(s) ==
    IF s.peer.sig = "null" THEN s
    ELSE LET waiting == SelectSeq(s.tasks, LAMBDA t : t.pos \notin PeerOps)
         IN [s EXCEPT !.peer = NoPeer,
                      !.tasks = [i \in 1 .. Len(waiting) |->
                                    [waiting[i] EXCEPT !.pcClosed = TRUE]]]

\* cleanupStreams
\* audioTrack and videoTrack are the enabled flags of the local stream's tracks;
\* a stream is acquired with audioEnabled and videoEnabled true, and has none
\* once it is released
CleanupStreams(s) ==
    [s EXCEPT !.localStream = FALSE, !.remoteStream = FALSE,
              !.audioTrack = TRUE, !.videoTrack = TRUE]

\* the setState calls at the end of leaveRoom
ResetCallState(s) ==
    IF s.life = "mounted"
    THEN [s EXCEPT !.participants = 0, !.isConnected = FALSE, !.audioEnabled = TRUE,
                   !.videoEnabled = TRUE, !.status = "Idle"]
    ELSE s

\* leaveRoom(notifyPeer)
LeaveRoom(cx, c, notifyPeer) ==
    LET activeRoom == cx.s.roomId
        sent == IF notifyPeer /\ cx.s.sock # "null" /\ activeRoom # NoRoom
                THEN Append(cx.sent, Msg("leave", c, activeRoom, NoPayload, FALSE))
                ELSE cx.sent
    IN Cx(ResetCallState(CleanupStreams(ClosePeerConnection(cx.s))), sent)

\* createPeerConnection
CreatePeerConnection(s) == [s EXCEPT !.peer = NewPeer, !.remoteStream = TRUE]

AddTask(s, t) == [s EXCEPT !.tasks = Append(@, t)]
RemoveAt(q, i) == [j \in 1 .. Len(q) - 1 |-> IF j < i THEN q[j] ELSE q[j + 1]]
Max(a, b) == IF a >= b THEN a ELSE b

\* joinRoom from attachLocalTracks on: the tracks are added and join is emitted,
\* or the catch block runs; finally isJoining is reset
JoinAfterMedia(cx, c, targetRoom, pcClosed, granted) ==
    LET s == IF granted THEN [cx.s EXCEPT !.localStream = TRUE] ELSE cx.s
        done(t) == IF t.life = "mounted" THEN [t EXCEPT !.isJoining = FALSE] ELSE t
    IN IF granted /\ ~pcClosed /\ s.sock # "null"
       THEN LET w == IF s.life = "mounted"
                     THEN [s EXCEPT !.status = "Waiting for others to join",
                                    !.participants = Max(@, 1)]
                     ELSE s
            IN Cx(done(w), Append(cx.sent, Msg("join", c, targetRoom, NoPayload, FALSE)))
       ELSE LET left == LeaveRoom(Cx(SetError(s, "Unable to access camera/mic"), cx.sent),
                                  c, FALSE)
            IN Cx(done(left.s), left.sent)

\* joinRoom up to its first suspension; gen is the code generateRoomCode returns
JoinRoom(s, c, gen) ==
    IF s.isJoining THEN Cx(s, <<>>)
    ELSE LET s1 == SetError(s, "")
             targetRoom == IF s.roomId = NoRoom THEN gen ELSE s.roomId
         IN IF s1.sock = "null"
            THEN Cx(SetError(s1, "Socket is not ready yet"), <<>>)
            ELSE LET s2 == [s1 EXCEPT !.roomId = targetRoom, !.isJoining = TRUE,
                                      !.status = "Preparing devices"]
                     s3 == IF s2.peer.sig = "null" THEN CreatePeerConnection(s2) ELSE s2
                 IN IF s3.localStream
                    THEN JoinAfterMedia(Cx(s3, <<>>), c, targetRoom, FALSE, TRUE)
                    ELSE Cx(AddTask(s3, Task("join", "media", NoPayload, targetRoom)), <<>>)

\* sendOffer up to createOffer
SendOffer(s) ==
    IF s.peer.sig = "null" \/ s.sock = "null" \/ s.roomId = NoRoom THEN s
    ELSE AddTask(s, Task("peer-joined", "createOffer", NoPayload, s.roomId))

\* socket.on("peer-joined") after attachLocalTracks
PeerJoinedAfterAttach(s) == SendOffer(SetStatus(s, "Peer joined. Establishing connection"))

\* socket.on("peer-joined")
OnPeerJoined(s, n) ==
    LET s1 == IF s.life = "mounted" THEN [s EXCEPT !.participants = n] ELSE s
    IN IF s1.peer.sig = "null"
       THEN LET s2 == CreatePeerConnection(s1)
            IN IF s2.localStream THEN PeerJoinedAfterAttach(s2)
               ELSE AddTask(s2, Task("peer-joined", "media", NoPayload, NoRoom))
       ELSE PeerJoinedAfterAttach(s1)

\* peerRef.current?.currentRemoteDescription
HasRemoteDescription(p) == p.remote # NoPayload

\* socket.on("offer") after attachLocalTracks, up to setRemoteDescription
OfferAfterAttach(s, description) ==
    IF s.peer.sig # "null" /\ ~HasRemoteDescription(s.peer)
    THEN AddTask(s, Task("offer", "setRemoteOffer", description, NoRoom))
    ELSE s

\* socket.on("offer")
OnOffer(s, description) ==
    IF s.peer.sig = "null"
    THEN LET s2 == CreatePeerConnection(s)
         IN IF s2.localStream THEN OfferAfterAttach(s2, description)
            ELSE AddTask(s2, Task("offer", "media", description, NoRoom))
    ELSE OfferAfterAttach(s, description)

OnAnswer_WhenStable(s, description) ==
    IF s.peer.sig = "stable"
    THEN AddTask(s, Task("answer", "setRemoteAnswer", description, NoRoom))
    ELSE s

\* socket.on("answer") up to setRemoteDescription
OnAnswer(s, description) ==
    IF s.peer.sig = "have-local-offer"
    THEN AddTask(s, Task("answer", "setRemoteAnswer", description, NoRoom))
    ELSE s

\* socket.on("ice-candidate") up to addIceCandidate
OnIceCandidate(s, candidate) ==
    IF s.peer.sig # "null"
    THEN AddTask(s, Task("ice-candidate", "addIce", candidate, NoRoom))
    ELSE s

\* socket.on("peer-left")
OnPeerLeft(s) ==
    LET s1 == IF s.life = "mounted"
              THEN [s EXCEPT !.status = "Peer disconnected",
                             !.participants = Max(0, @ - 1)]
              ELSE s
    IN [ClosePeerConnection(s1) EXCEPT !.remoteStream = FALSE]

\* socket.on("joined-room")
OnJoinedRoom(s, n) ==
    IF s.life = "mounted"
    THEN [s EXCEPT !.participants = n,
                   !.status = IF n > 1 THEN "Connected to peers"
                              ELSE "Waiting for others to join"]
    ELSE s

\* socket.on("room-full")
OnRoomFull(cx, c) ==
    LeaveRoom(Cx(SetError(cx.s, "This room already has the maximum number of participants"),
                 cx.sent), c, FALSE)

HandlerOf_JoinedOffers(ev) == IF ev = "joined-room" THEN "peer-joined" ELSE ev

\* the socket.on registrations of setupSocket: event name -> handler
HandlerOf(ev) == ev

\* one event of the relay dispatched to its handler, up to the first suspension
Dispatch(s, c, e) ==
    LET h == HandlerOf(e.ev)
    IN CASE h = "joined-room" -> Cx(OnJoinedRoom(s, e.participants), <<>>)
         [] h = "room-full" -> OnRoomFull(Cx(s, <<>>), c)
         [] h = "peer-joined" -> Cx(OnPeerJoined(s, e.participants), <<>>)
         [] h = "offer" -> Cx(OnOffer(s, e.payload), <<>>)
         [] h = "answer" -> Cx(OnAnswer(s, e.payload), <<>>)
         [] h = "ice-candidate" -> Cx(OnIceCandidate(s, e.payload), <<>>)
         [] h = "peer-left" -> Cx(OnPeerLeft(s), <<>>)
         [] h = "ack" -> Cx(SetStatus(s, "Offer sent"), <<>>)
         [] OTHER -> Cx(s, <<>>)

OfferAfterSetLocal_Regardless(s, c, t, r) ==
    Cx([s EXCEPT !.peer = r.peer], <<Msg("offer", c, t.room, t.desc, TRUE)>>)

\* sendOffer after setLocalDescription(offer) settled with r: the offer is
\* emitted, or the rejection is caught
OfferAfterSetLocal(s, c, t, r) ==
    IF r.ok /\ s.sock # "null"
    THEN Cx([s EXCEPT !.peer = r.peer], <<Msg("offer", c, t.room, t.desc, TRUE)>>)
    ELSE Cx(SetError([s EXCEPT !.peer = r.peer], "Unable to create an offer"), <<>>)

\* a suspended handler resumes: the awaited operation settles and the handler
\* runs to its next suspension. s is the component without that handler.
ResumeOutcomes(s, c, t) ==
    CASE t.pos = "media" /\ t.kind = "join" ->
            {JoinAfterMedia(Cx(s, <<>>), c, t.room, t.pcClosed, granted) : granted \in BOOLEAN}
      [] t.pos = "media" /\ t.kind = "peer-joined" ->
            {Cx(s, <<>>),
             IF t.pcClosed THEN Cx([s EXCEPT !.localStream = TRUE], <<>>)
             ELSE Cx(PeerJoinedAfterAttach([s EXCEPT !.localStream = TRUE]), <<>>)}
      [] t.pos = "media" /\ t.kind = "offer" ->
            {Cx(s, <<>>),
             IF t.pcClosed THEN Cx([s EXCEPT !.localStream = TRUE], <<>>)
             ELSE Cx(OfferAfterAttach([s EXCEPT !.localStream = TRUE], t.desc), <<>>)}
      [] t.pos = "createOffer" ->
            {Cx(AddTask(s, [t EXCEPT !.pos = "setLocalOffer",
                                     !.desc = Desc("offer", c, NoConn)]), <<>>)}
      [] t.pos = "setLocalOffer" ->
            {OfferAfterSetLocal(s, c, t, r) : r \in SetLocalOffer(s.peer, t.desc)}
      [] t.pos = "setRemoteOffer" ->
            {IF r.ok
             THEN Cx(AddTask([s EXCEPT !.peer = r.peer],
                             [t EXCEPT !.pos = "createAnswer", !.desc = NoPayload]), <<>>)
             ELSE Cx(s, <<>>)
             : r \in SetRemoteOffer(s.peer, t.desc)}
      [] t.pos = "createAnswer" ->
            LET r == CreateAnswer(s.peer, c)
            IN {IF r.ok
                THEN Cx(AddTask(s, [t EXCEPT !.pos = "setLocalAnswer", !.desc = r.desc]), <<>>)
                ELSE Cx(s, <<>>)}
      [] t.pos = "setLocalAnswer" ->
            LET r == SetLocalAnswer(s.peer, t.desc)
            IN {IF r.ok /\ s.roomId # NoRoom
                THEN Cx(SetStatus([s EXCEPT !.peer = r.peer], "Answer sent"),
                        <<Msg("answer", c, s.roomId, t.desc, FALSE)>>)
                ELSE Cx([s EXCEPT !.peer = r.peer], <<>>)}
      [] t.pos = "setRemoteAnswer" ->
            LET r == SetRemoteAnswer(s.peer, t.desc)
            IN {IF r.ok THEN Cx(SetStatus([s EXCEPT !.peer = r.peer], "Call connected"), <<>>)
                ELSE Cx(s, <<>>)}
      [] t.pos = "addIce" ->
            \* a rejection is caught and logged with console.error
            {Cx([s EXCEPT !.peer = AddIceCandidate(s.peer, t.desc).peer], <<>>)}
      [] OTHER -> {Cx(s, <<>>)}

\* handleIceCandidate: the peer connection found a local candidate
HandleIceCandidate(s, c) ==
    Cx([s EXCEPT !.peer.gathered = TRUE],
       IF s.sock # "null" /\ s.roomId # NoRoom
       THEN <<Msg("ice-candidate", c, s.roomId, Desc("candidate", c, NoConn), FALSE)>>
       ELSE <<>>)

\* handleConnectionState for peerConnection.connectionState = st
HandleConnectionState(cx, c, st) ==
    LET s == [cx.s EXCEPT !.peer.conn = st]
        mounted == s.life = "mounted"
    IN CASE st = "connected" ->
              Cx(IF mounted THEN [s EXCEPT !.isConnected = TRUE, !.status = "Connected"]
                 ELSE s, cx.sent)
         [] st = "connecting" -> Cx(SetStatus(s, "Connecting"), cx.sent)
         [] st = "disconnected" ->
              Cx(IF mounted THEN [s EXCEPT !.isConnected = FALSE, !.status = "Disconnected"]
                 ELSE s, cx.sent)
         [] st = "failed" ->
              LeaveRoom(Cx(SetError(SetStatus(s, "Connection failed"),
                                    "Peer connection failed"), cx.sent), c, FALSE)
         [] OTHER -> Cx(s, cx.sent)

\* the connection states the transport can move to from state st
NextConnectionStates(p) ==
    CASE p.conn = "new" /\ p.remote # NoPayload -> {"connecting"}
      [] p.conn = "connecting" -> {"connected", "failed"}
      [] p.conn = "connected" -> {"disconnected"}
      [] p.conn = "disconnected" -> {"connected", "failed"}
      [] OTHER -> {}

\* isCallActive
IsCallActive(s) == s.isConnected /\ s.participants > 0

\* toggleAudio
ToggleAudio(s) ==
    IF ~s.localStream THEN s
    ELSE [s EXCEPT !.audioTrack = ~s.audioEnabled, !.audioEnabled = ~s.audioEnabled]

\* toggleVideo
ToggleVideo(s) ==
    IF ~s.localStream THEN s
    ELSE [s EXCEPT !.videoTrack = ~s.videoEnabled, !.videoEnabled = ~s.videoEnabled]

\* handleBeforeUnload
HandleBeforeUnload(s, c) ==
    IF s.sock # "null" /\ s.roomId # NoRoom
    THEN <<Msg("leave", c, s.roomId, NoPayload, FALSE)>> ELSE <<>>

\* setTimeout(...): the id of the new timer
NewTimer(s) == (s.reconnectTimeout % 3) + 1

\* clearTimeout(reconnectTimeout.current)
ClearReconnectTimeout(s) == [s EXCEPT !.timers = @ \ {s.reconnectTimeout}]

OnDisconnect_NoClear(s) ==
    LET s1 == SetStatus(s, "Disconnected from signaling server")
        id == NewTimer(s1)
    IN [s1 EXCEPT !.timers = @ \cup {id}, !.reconnectTimeout = id]

\* socket.on("disconnect")
OnDisconnect(s) ==
    LET s1 == ClearReconnectTimeout(SetStatus(s, "Disconnected from signaling server"))
        id == NewTimer(s1)
    IN [s1 EXCEPT !.timers = @ \cup {id}, !.reconnectTimeout = id]

\* the cleanup of the socket effect; socket.disconnect() on a connected socket
\* runs the socket's "disconnect" listeners before it returns
SocketEffectCleanup(s, c) ==
    LET s1 == ClearReconnectTimeout(s)
        s2 == IF s1.sock = "connected" THEN OnDisconnect(s1) ELSE s1
    IN LeaveRoom(Cx([s2 EXCEPT !.sock = "null"], <<>>), c, FALSE)

\* the cleanup of the socket effect when the component is unmounted
EffectCleanup(s, c) ==
    LET left == SocketEffectCleanup(s, c)
    IN Cx([left.s EXCEPT !.life = "unmounted"], left.sent)

\* ------------------------------------------------------------ relay actions

InitialHist ==
    [joinedRoom |-> NoRoom, leaves |-> 0, ended |-> "none",
     peerJoined |-> 0, offers |-> 0, answers |-> 0, sequel |-> "none",
     recancel |-> FALSE, glare |-> FALSE, rejoin |-> "none",
     iceDropped |-> FALSE, iceApplied |-> FALSE, iceRejected |-> FALSE,
     uncommitted |-> FALSE, toggled |-> "none"]

ClientInit ==
    /\ client \in {[c \in Clients |-> InitialClient(f[c])] :
                     f \in [Clients -> RoomIds \cup {NoRoom}]}
    /\ up = [c \in Clients |-> <<>>]
    /\ down = [c \in Clients \cup Guests |-> <<>>]
    /\ hist = [c \in Clients |-> InitialHist]
    /\ clicks = 0

ServerInit ==
    /\ connected = {}
    /\ rooms = [r \in RoomIds |-> {}]
    /\ last = Msg("none", NoConn, NoRoom, NoPayload, FALSE)
    /\ pre = [r \in RoomIds |-> {}]
    /\ out = <<>>

Init == ServerInit /\ ClientInit

\* the relay with NumConns connections up
RelayInit ==
    /\ connected = Conns
    /\ rooms = [r \in RoomIds |-> {}]
    /\ last = Msg("none", NoConn, NoRoom, NoPayload, FALSE)
    /\ pre = [r \in RoomIds |-> {}]
    /\ out = <<>>
    /\ client = [c \in Clients |-> InitialClient(NoRoom)]
    /\ up = [c \in Clients |-> <<>>]
    /\ down = [c \in Clients \cup Guests |-> <<>>]
    /\ hist = [c \in Clients |-> InitialHist]
    /\ clicks = 0

NoMsg == Msg("none", NoConn, NoRoom, NoPayload, FALSE)

\* one handler runs to completion, then its emitted packets are flushed
Handled(m, res) ==
    /\ last = NoMsg
    /\ last' = m
    /\ pre' = rooms
    /\ rooms' = res.rooms
    /\ out' = res.emits

Flush ==
    /\ last # NoMsg
    /\ last' = NoMsg
    /\ pre' = rooms
    /\ out' = <<>>
    /\ UNCHANGED <<connected, rooms>>

Join(c, r) ==
    /\ c \in connected
    /\ Handled(Msg("join", c, r, NoPayload, FALSE), OnJoin(rooms, c, r))
    /\ UNCHANGED connected

Leave(c, r) ==
    /\ c \in connected
    /\ Handled(Msg("leave", c, r, NoPayload, FALSE), OnLeave(rooms, c, r))
    /\ UNCHANGED connected

Signal(kind, c, r, p, ack) ==
    /\ c \in connected
    /\ Handled(Msg(kind, c, r, p, ack), OnSignal(rooms, kind, c, r, p, ack))
    /\ UNCHANGED connected

\* a socket disconnects; a new connection takes its number at once
Disconnect(c) ==
    /\ c \in connected
    /\ Handled(Msg("disconnecting", c, NoRoom, NoPayload, FALSE), OnDisconnecting(rooms, c))
    /\ UNCHANGED connected

\* well-formed signals, one without roomId and one without payload
SignalInputs ==
    (RoomIds \X Payloads) \cup {<<NoRoom, Desc("offer", 1, NoConn)>>, <<"A", NoPayload>>}
AckInputs(k) == IF k = "ice-candidate" THEN {FALSE} ELSE BOOLEAN

RelayStep ==
    \/ \E c \in Conns, r \in RoomIds \cup {NoRoom} : Join(c, r)
    \/ \E c \in Conns, r \in RoomIds \cup {NoRoom} : Leave(c, r)
    \/ \E k \in SignalKinds, c \in Conns, in \in SignalInputs :
          \E ack \in AckInputs(k) : Signal(k, c, in[1], in[2], ack)
    \/ \E c \in Conns : Disconnect(c)
    \/ Flush

RelayNext == RelayStep /\ UNCHANGED clientVars

SpecRelay == RelayInit /\ [][RelayNext]_vars

\* ----------------------------------------------------------- client actions
\* history: what the packets emitted by one handler add to it
RECURSIVE HistAfter(_, _)
HistAfter(h, sent) ==
    IF sent = <<>> THEN h
    ELSE LET m == Head(sent)
             h1 == CASE m.kind = "join" ->
                          [h EXCEPT !.joinedRoom = m.roomId, !.leaves = 0, !.ended = "none",
                                    !.rejoin = IF @ = "released" /\ m.roomId = h.joinedRoom
                                               THEN "asked" ELSE "none"]
                      [] m.kind = "leave" /\ m.roomId = h.joinedRoom ->
                          [h EXCEPT !.leaves = Counted(@)]
                      [] m.kind = "offer" -> [h EXCEPT !.offers = @ + 1]
                      [] m.kind = "answer" -> [h EXCEPT !.answers = @ + 1]
                      [] OTHER -> h
         IN HistAfter(h1, Tail(sent))

Ended(h, path) == IF h.joinedRoom # NoRoom THEN [h EXCEPT !.ended = path] ELSE h

\* history: the peer transport failed and left the component as s
Failed(h, s) ==
    LET released == /\ s.peer.sig = "null"
                    /\ ~s.localStream /\ ~s.remoteStream
                    /\ s.error = "Peer connection failed"
    IN [Ended(h, "failed") EXCEPT !.rejoin = IF released THEN "released" ELSE "kept"]

\* cx emits an offer or an answer that is not the local description of its peer
\* connection
Uncommitted(cx) ==
    \E i \in DOMAIN cx.sent :
        /\ cx.sent[i].kind \in {"offer", "answer"}
        /\ cx.sent[i].payload # cx.s.peer.local

\* the component of client c becomes cx.s; its packets go out on the socket, or
\* into the socket's send buffer while the socket is not connected
Commit(c, cx, h) ==
    /\ client' = [client EXCEPT ![c] =
                     IF cx.s.sock = "connected" THEN cx.s
                     ELSE [cx.s EXCEPT !.sendBuffer = @ \o cx.sent]]
    /\ up' = [up EXCEPT ![c] = IF cx.s.sock = "connected" THEN @ \o cx.sent ELSE @]
    /\ hist' = [hist EXCEPT ![c] =
                   HistAfter([h EXCEPT !.sequel = "none",
                                       !.uncommitted = @ \/ Uncommitted(cx)], cx.sent)]

\* setupSocket: io() and the socket's connect
SetupSocket(c) ==
    /\ client[c].life = "mounted"
    /\ client[c].sock = "null"
    /\ c \notin connected
    /\ connected' = connected \cup {c}
    /\ client' = [client EXCEPT ![c].sock = "connected",
                                ![c].status = "Connected to signaling server"]
    /\ UNCHANGED <<rooms, last, pre, out, up, down, hist, clicks>>

\* the room code input's onChange
EditRoomId(c, r) ==
    /\ client[c].life = "mounted"
    /\ client[c].roomId # r
    /\ client' = [client EXCEPT ![c].roomId = r]
    /\ UNCHANGED <<relayVars, up, down, hist, clicks>>

\* click on Start / Join (disabled while isJoining), at most budget clicks
ClickJoin(c, budget) ==
    /\ client[c].life = "mounted"
    /\ ~client[c].isJoining
    /\ clicks < budget
    /\ clicks' = clicks + 1
    /\ \E gen \in RoomIds : Commit(c, JoinRoom(client[c], c, gen), hist[c])
    /\ UNCHANGED <<relayVars, down>>

\* click on End Call (disabled unless isCallActive)
EndCall(c) ==
    /\ client[c].life = "mounted"
    /\ IsCallActive(client[c])
    /\ Commit(c, LeaveRoom(Cx(client[c], <<>>), c, TRUE), Ended(hist[c], "end"))
    /\ UNCHANGED <<relayVars, down, clicks>>

\* the operations of one RTCPeerConnection settle in the order of their calls
\* (its operations chain); getUserMedia settles on its own
CanSettle(tasks, i) ==
    tasks[i].pos \in PeerOps => \A j \in 1 .. i - 1 : tasks[j].pos \notin PeerOps

\* history: what the settling of handler t in component s adds to it
HistSettled(h, s, t) ==
    IF t.pos = "addIce"
    THEN LET ok == AddIceCandidate(s.peer, t.desc).ok
         IN [h EXCEPT !.iceApplied = @ \/ ok, !.iceRejected = @ \/ ~ok]
    ELSE h

\* one suspended handler of client c resumes
Resume(c) ==
    /\ client[c].life # "exited"
    /\ \E i \in DOMAIN client[c].tasks :
          LET t == client[c].tasks[i]
              s == [client[c] EXCEPT !.tasks = RemoveAt(@, i)]
          IN /\ CanSettle(client[c].tasks, i)
             /\ \E cx \in ResumeOutcomes(s, c, t) : Commit(c, cx, HistSettled(hist[c], s, t))
    /\ UNCHANGED <<relayVars, down, clicks>>

\* the component has emitted an offer and no answer has reached it since
Unanswered(s) ==
    /\ s.peer.sig = "have-local-offer"
    /\ \A i \in DOMAIN s.tasks : s.tasks[i].pos # "setRemoteAnswer"

\* the event at the head of down[c] is the relay's reply to the join that c
\* emitted last
IsLastReply(c) ==
    /\ \A i \in DOMAIN up[c] : up[c][i].kind # "join"
    /\ \A i \in 2 .. Len(down[c]) : down[c][i].ev \notin {"joined-room", "room-full"}

\* history: what the dispatch of event e adds to it
HistSeen(c, e) ==
    LET h == hist[c]
        joiner == e.participantId
    IN CASE e.ev = "peer-joined" ->
              [h EXCEPT !.peerJoined = @ + 1]
         [] e.ev = "offer" ->
              [h EXCEPT !.glare = @ \/ (joiner # c /\ Unanswered(client[c]))]
         [] e.ev = "ice-candidate" ->
              [h EXCEPT !.iceDropped = @ \/ client[c].peer.sig = "null"]
         [] e.ev = "joined-room" ->
              [h EXCEPT !.rejoin = IF @ = "asked" /\ IsLastReply(c) THEN "accepted" ELSE @]
         [] e.ev = "room-full" ->
              [h EXCEPT !.rejoin = IF @ = "asked" /\ IsLastReply(c) THEN "rejected" ELSE @]
         [] OTHER -> h

\* the socket of client c dispatches the next event from the relay
Deliver(c) ==
    /\ client[c].sock = "connected"
    /\ down[c] # <<>>
    /\ LET e == Head(down[c])
       IN Commit(c, Dispatch(client[c], c, e), HistSeen(c, e))
    /\ down' = [down EXCEPT ![c] = Tail(@)]
    /\ UNCHANGED <<relayVars, clicks>>

\* onicecandidate of the peer connection of client c: it gathers candidates
\* once it has a local description (here: one candidate)
LocalCandidate(c) ==
    /\ client[c].life # "exited"
    /\ client[c].peer.sig # "null"
    /\ client[c].peer.local # NoPayload
    /\ ~client[c].peer.gathered
    /\ Commit(c, HandleIceCandidate(client[c], c), hist[c])
    /\ UNCHANGED <<relayVars, down, clicks>>

\* onconnectionstatechange of the peer connection of client c
TransportState(c) ==
    /\ client[c].life # "exited"
    /\ client[c].peer.sig # "null"
    /\ \E st \in NextConnectionStates(client[c].peer) :
          LET cx == HandleConnectionState(Cx(client[c], <<>>), c, st)
          IN Commit(c, cx, IF st = "failed" THEN Failed(hist[c], cx.s) ELSE hist[c])
    /\ UNCHANGED <<relayVars, down, clicks>>

\* the page is closed: beforeunload, then everything of the page is gone
PageExit(c) ==
    /\ client[c].life = "mounted"
    /\ LET sent == HandleBeforeUnload(client[c], c)
           gone == [client[c] EXCEPT !.life = "exited", !.sock = "closed", !.tasks = <<>>,
                                     !.timers = {}, !.sendBuffer = <<>>]
       IN /\ client' = [client EXCEPT ![c] = gone]
          /\ up' = [up EXCEPT ![c] = IF client[c].sock = "connected" THEN @ \o sent ELSE @]
          /\ hist' = [hist EXCEPT ![c] =
                        HistAfter([Ended(@, "exit") EXCEPT !.sequel = "none"], sent)]
    /\ down' = [down EXCEPT ![c] = <<>>]
    /\ UNCHANGED <<relayVars, clicks>>

\* the component is unmounted
Unmount(c) ==
    /\ client[c].life = "mounted"
    /\ Commit(c, EffectCleanup(client[c], c), Ended(hist[c], "unmount"))
    /\ down' = [down EXCEPT ![c] = <<>>]
    /\ UNCHANGED <<relayVars, clicks>>

\* the signaling transport of client c drops: the socket's "disconnect" event;
\* events on their way to the client are lost
SocketDisconnect(c) ==
    /\ client[c].sock = "connected"
    /\ client' = [client EXCEPT ![c] = OnDisconnect([@ EXCEPT !.sock = "disconnected"])]
    /\ hist' = [hist EXCEPT ![c].recancel = @ \/ client[c].timers # {}]
    /\ down' = [down EXCEPT ![c] = <<>>]
    /\ UNCHANGED <<relayVars, up, clicks>>

\* a disconnected socket connects again, as a new connection of the relay:
\* its "connect" event, then the packets of its send buffer go out
SocketReconnect(c) ==
    /\ client[c].sock = "disconnected"
    /\ c \notin connected
    /\ connected' = connected \cup {c}
    /\ client' = [client EXCEPT ![c] =
                     [SetStatus(@, "Connected to signaling server")
                        EXCEPT !.sock = "connected", !.sendBuffer = <<>>]]
    /\ up' = [up EXCEPT ![c] = @ \o client[c].sendBuffer]
    /\ UNCHANGED <<rooms, last, pre, out, down, hist, clicks>>

\* a reconnect timer fires: socket.connect(), which makes a disconnected socket
\* connect (SocketReconnect) and leaves a connected one alone
ReconnectTimer(c) ==
    /\ client[c].life # "exited"
    /\ \E id \in client[c].timers :
          client' = [client EXCEPT ![c].timers = @ \ {id}]
    /\ UNCHANGED <<relayVars, up, down, hist, clicks>>

\* an event reaches a client whose socket is still open; of the events that
\* reach a guest only the offers are kept
Reaches(e) ==
    IF e.to \in Clients THEN client[e.to].sock = "connected"
    ELSE e.to \in Guests /\ e.ev = "offer"

\* the events of one relay handler on their way to the sockets
RECURSIVE Delivered(_, _)
Delivered(dn, emits) ==
    IF emits = <<>> THEN dn
    ELSE LET e == Head(emits)
         IN Delivered(IF Reaches(e) THEN [dn EXCEPT ![e.to] = Append(@, e)] ELSE dn,
                      Tail(emits))

\* the relay's handler for a packet m
OnPacket(rms, m) ==
    CASE m.kind = "join" -> OnJoin(rms, m.conn, m.roomId)
      [] m.kind = "leave" -> OnLeave(rms, m.conn, m.roomId)
      [] m.kind \in SignalKinds -> OnSignal(rms, m.kind, m.conn, m.roomId, m.payload, m.ack)
      [] OTHER -> [rooms |-> rms, emits |-> <<>>]

\* the relay handles the next packet of client c
ServerHandle(c) ==
    /\ c \in connected
    /\ up[c] # <<>>
    /\ LET res == OnPacket(rooms, Head(up[c]))
       IN /\ rooms' = res.rooms
          /\ down' = Delivered(down, res.emits)
    /\ up' = [up EXCEPT ![c] = Tail(@)]
    /\ UNCHANGED <<connected, last, pre, out, client, hist, clicks>>

\* the relay notices that the socket of client c is gone
ServerDisconnect(c) ==
    /\ c \in connected
    /\ client[c].sock # "connected"
    /\ up[c] = <<>>
    /\ LET res == OnDisconnecting(rooms, c)
       IN /\ rooms' = res.rooms
          /\ down' = Delivered(down, res.emits)
    /\ connected' = connected \ {c}
    /\ UNCHANGED <<last, pre, out, client, up, hist, clicks>>

\* a guest connects and joins room r: the relay handles its join
GuestJoin(g, r) ==
    /\ g \notin connected
    /\ connected' = connected \cup {g}
    /\ LET res == OnJoin(rooms, g, r)
       IN /\ rooms' = res.rooms
          /\ down' = Delivered(down, res.emits)
    /\ UNCHANGED <<last, pre, out, client, up, hist, clicks>>

\* a guest answers the offer that reached it: the relay handles its answer
GuestAnswer(g) ==
    /\ down[g] # <<>>
    /\ \E r \in SocketRooms(rooms, g) :
          LET offer == Head(down[g]).payload
              res == OnSignal(rooms, "answer", g, r, Desc("answer", g, offer.by), FALSE)
          IN down' = Delivered([down EXCEPT ![g] = Tail(@)], res.emits)
    /\ UNCHANGED <<relayVars, client, up, hist, clicks>>

\* a guest leaves a room it is in: the relay handles its leave
GuestLeave(g) ==
    /\ \E r \in SocketRooms(rooms, g) :
          LET res == OnLeave(rooms, g, r)
          IN /\ rooms' = res.rooms
             /\ down' = Delivered([down EXCEPT ![g] = <<>>], res.emits)
    /\ UNCHANGED <<connected, last, pre, out, client, up, hist, clicks>>

\* leaveRoom(notifyPeer) called directly, up to twice in a row; sequel tells
\* whether a call that follows another call of leaveRoom had any effect
InvokeLeaveRoom(c, notifyPeer) ==
    /\ client[c].life = "mounted"
    /\ hist[c].sequel \in {"none", "first"}
    /\ LET cx == LeaveRoom(Cx(client[c], <<>>), c, notifyPeer)
           sequel == IF hist[c].sequel = "none" THEN "first"
                     ELSE IF cx.s = client[c] /\ cx.sent = <<>> THEN "inert"
                     ELSE "effect"
       IN /\ client' = [client EXCEPT ![c] =
                           IF cx.s.sock = "connected" THEN cx.s
                           ELSE [cx.s EXCEPT !.sendBuffer = @ \o cx.sent]]
          /\ up' = [up EXCEPT ![c] = IF cx.s.sock = "connected" THEN @ \o cx.sent ELSE @]
          /\ hist' = [hist EXCEPT ![c] = [HistAfter(@, cx.sent) EXCEPT !.sequel = sequel]]
    /\ UNCHANGED <<relayVars, down, clicks>>

\* toggleAudio or toggleVideo called directly. A change of audioEnabled or
\* videoEnabled changes ensureLocalStream, attachLocalTracks with it, and so
\* re-runs the socket effect: its cleanup, then setupSocket. toggled tells whether
\* a call made while no call was active changed a flag.
InvokeToggle(c, video) ==
    /\ client[c].life = "mounted"
    /\ LET s == IF video THEN ToggleVideo(client[c]) ELSE ToggleAudio(client[c])
           changed == s # client[c]
           cx == IF changed THEN SocketEffectCleanup(s, c) ELSE Cx(s, <<>>)
           h == IF IsCallActive(client[c]) THEN hist[c]
                ELSE [hist[c] EXCEPT !.toggled = IF changed THEN "changed"
                                                 ELSE IF @ = "none" THEN "inert" ELSE @]
       IN /\ Commit(c, cx, h)
          /\ down' = [down EXCEPT ![c] = IF changed THEN <<>> ELSE @]
    /\ UNCHANGED <<relayVars, clicks>>

\* everything but the clicks on Start / Join
Others ==
    \/ \E c \in Clients : SetupSocket(c)
    \/ \E c \in Clients : EndCall(c)
    \/ \E c \in Clients : Resume(c)
    \/ \E c \in Clients : Deliver(c)
    \/ \E c \in Clients : TransportState(c)
    \/ \E c \in Clients : PageExit(c)
    \/ \E c \in Clients : Unmount(c)
    \/ \E c \in Clients : ServerHandle(c)
    \/ \E c \in Clients : ServerDisconnect(c)
    \/ \E c \in Clients : ReconnectTimer(c)

Next ==
    \/ \E c \in Clients : ClickJoin(c, MaxClicks)
    \/ Others

\* two clients and the relay
Spec == Init /\ [][Next]_vars

NextRejoin ==
    \/ \E c \in Clients : ClickJoin(c, MaxClicks + 1)
    \/ Others

\* as Spec, with a click more
SpecRejoin == Init /\ [][NextRejoin]_vars

NextEdit ==
    \/ \E c \in Clients, r \in RoomIds \cup {NoRoom} : EditRoomId(c, r)
    \/ \E c \in Clients : ClickJoin(c, MaxClicks)
    \/ Others

\* as Spec, with users who retype the room code
SpecEdit == Init /\ [][NextEdit]_vars

NextTeardown ==
    \/ \E c \in Harnessed : SetupSocket(c)
    \/ \E c \in Harnessed : ClickJoin(c, MaxClicks)
    \/ \E c \in Harnessed : Resume(c)
    \/ \E c \in Harnessed : Deliver(c)
    \/ \E c \in Harnessed : ServerHandle(c)
    \/ \E c \in Harnessed, notifyPeer \in BOOLEAN : InvokeLeaveRoom(c, notifyPeer)

\* one client whose leaveRoom is called directly
SpecTeardown == Init /\ [][NextTeardown]_vars

NextToggle ==
    \/ \E c \in Harnessed : SetupSocket(c)
    \/ \E c \in Harnessed : ClickJoin(c, MaxClicks)
    \/ \E c \in Harnessed : Resume(c)
    \/ \E c \in Harnessed : Deliver(c)
    \/ \E c \in Harnessed : ServerHandle(c)
    \/ \E c \in Harnessed : ServerDisconnect(c)
    \/ \E c \in Harnessed, video \in BOOLEAN : InvokeToggle(c, video)

\* one client whose toggleAudio and toggleVideo are called directly
SpecToggle == Init /\ [][NextToggle]_vars

\* the clients were opened through a link to room "A"
InitGuests ==
    /\ Init
    /\ \A c \in Clients : client[c].roomId = "A"

\* a client that has not joined yet clicks Start / Join
FirstJoin(c) ==
    /\ hist[c].joinedRoom = NoRoom
    /\ ClickJoin(c, MaxClicks)

NextGuests ==
    \/ \E c \in Clients : SetupSocket(c)
    \/ \E c \in Clients : FirstJoin(c)
    \/ \E c \in Clients : Resume(c)
    \/ \E c \in Clients : Deliver(c)
    \/ \E c \in Clients : ServerHandle(c)
    \/ \E g \in Newcomers : GuestJoin(g, "A")
    \/ \E g \in Newcomers : GuestAnswer(g)

\* two clients, the relay, and guests in one room: the guests are further
\* participants, of which only the packets are modelled
SpecGuests == InitGuests /\ [][NextGuests]_vars

NextIce ==
    \/ \E c \in Clients : SetupSocket(c)
    \/ \E c \in Clients : FirstJoin(c)
    \/ \E c \in Clients : Resume(c)
    \/ \E c \in Clients : Deliver(c)
    \/ \E c \in Clients : LocalCandidate(c)
    \/ \E c \in Clients : ServerHandle(c)
    \/ \E g \in Newcomers : GuestJoin(g, "A")

\* two clients and a guest in one room, each client joining once, with the ICE
\* candidates of the peer connections
SpecIce == InitGuests /\ [][NextIce]_vars

NextLeave ==
    \/ \E c \in Clients : SetupSocket(c)
    \/ \E c \in Clients : FirstJoin(c)
    \/ \E c \in Clients : Resume(c)
    \/ \E c \in Clients : Deliver(c)
    \/ \E c \in Clients : ServerHandle(c)
    \/ \E g \in Newcomers : GuestJoin(g, "A")
    \/ \E g \in Newcomers : GuestLeave(g)

\* two clients that join once and a guest that joins their room and leaves it
SpecLeave == InitGuests /\ [][NextLeave]_vars

NextCall ==
    \/ \E c \in Clients : SetupSocket(c)
    \/ \E c \in Clients : FirstJoin(c)
    \/ \E c \in Clients : Resume(c)
    \/ \E c \in Clients : Deliver(c)
    \/ \E c \in Clients : ServerHandle(c)

\* every awaited operation settles, every packet is handled by the relay and
\* every event is dispatched by its socket
FairCall ==
    \A c \in Clients :
        WF_vars(Resume(c)) /\ WF_vars(Deliver(c)) /\ WF_vars(ServerHandle(c))

\* a two-party call: two clients that join room "A" once; nothing is lost,
\* nobody leaves or disconnects and no transport fails
SpecCall == InitGuests /\ [][NextCall]_vars /\ FairCall

\* the clients were opened through a link to room "A", which two guests are in
InitFull ==
    /\ ClientInit
    /\ \A c \in Clients : client[c].roomId = "A"
    /\ connected = Guests
    /\ rooms = [r \in RoomIds |-> IF r = "A" THEN Guests ELSE {}]
    /\ last = Msg("none", NoConn, NoRoom, NoPayload, FALSE)
    /\ pre = [r \in RoomIds |-> {}]
    /\ out = <<>>

NextFull ==
    \/ \E c \in Clients : SetupSocket(c)
    \/ \E c \in Clients : ClickJoin(c, MaxClicks + 1)
    \/ \E c \in Clients : Resume(c)
    \/ \E c \in Clients : Deliver(c)
    \/ \E c \in Clients : TransportState(c)
    \/ \E c \in Clients : ServerHandle(c)

\* two clients that join a room of two guests, and whose peer transport may fail
SpecFull == InitFull /\ [][NextFull]_vars

NextReconnect ==
    \/ \E c \in Harnessed : SetupSocket(c)
    \/ \E c \in Harnessed : ClickJoin(c, MaxClicks)
    \/ \E c \in Harnessed : Resume(c)
    \/ \E c \in Harnessed : Deliver(c)
    \/ \E c \in Harnessed : Unmount(c)
    \/ \E c \in Harnessed : ServerHandle(c)
    \/ \E c \in Harnessed : ServerDisconnect(c)
    \/ \E c \in Harnessed : SocketDisconnect(c)
    \/ \E c \in Harnessed : SocketReconnect(c)
    \/ \E c \in Harnessed : ReconnectTimer(c)

\* one client whose signaling transport drops and comes back
SpecReconnect == Init /\ [][NextReconnect]_vars

\* ------------------------------------------------------------------ claims
\* indices of the events of the last handler that went to connection c under name ev
EmitsTo(c, ev) == {i \in DOMAIN out : out[i].to = c /\ out[i].ev = ev}
EmitsNamed(ev) == {i \in DOMAIN out : out[i].ev = ev}

\* C1: every room has at most MAX_ROOM_SIZE (4) member connections, whatever
\* the sequence of join, leave, relay and disconnect messages.
C1_RoomSizeAtMostFour == \A r \in RoomIds : Cardinality(rooms[r]) <= MAX_ROOM_SIZE

\* a fifth connection was turned away from a room that holds four
C1_Witness ==
    /\ last.kind = "join"
    /\ last.roomId \in RoomIds
    /\ Cardinality(rooms[last.roomId]) = MAX_ROOM_SIZE
    /\ last.conn \notin rooms[last.roomId]

JoinedFullRoom ==
    /\ last.kind = "join"
    /\ last.roomId \in RoomIds
    /\ Cardinality(pre[last.roomId]) >= MAX_ROOM_SIZE

\* C2: a join into a room that already holds 4 leaves every room's membership
\* unchanged, sends room-full to the joiner and to nobody else, and emits
\* neither joined-room nor peer-joined.
C2_FullRoomRejects ==
    JoinedFullRoom =>
        /\ rooms = pre
        /\ Cardinality(EmitsTo(last.conn, "room-full")) = 1
        /\ \A i \in DOMAIN out : out[i].ev = "room-full" /\ out[i].to = last.conn

C2_Witness == JoinedFullRoom /\ last.conn \notin pre[last.roomId] /\ out # <<>>

JoinAccepted ==
    /\ last.kind = "join"
    /\ last.roomId \in RoomIds
    /\ Cardinality(pre[last.roomId]) < MAX_ROOM_SIZE

\* C3: an accepted join sends exactly one joined-room, to the joiner, and
\* exactly one peer-joined carrying the joiner's id to each other connection
\* that was a member before the join; the joiner gets no peer-joined, and
\* nobody outside the room gets one.
C3_AcceptedJoinNotifies ==
    JoinAccepted =>
        /\ Cardinality(EmitsNamed("joined-room")) = 1
        /\ Cardinality(EmitsTo(last.conn, "joined-room")) = 1
        /\ EmitsTo(last.conn, "peer-joined") = {}
        /\ \A m \in pre[last.roomId] \ {last.conn} :
              /\ Cardinality(EmitsTo(m, "peer-joined")) = 1
              /\ \A i \in EmitsTo(m, "peer-joined") : out[i].participantId = last.conn
        /\ \A m \in Conns \ pre[last.roomId] : EmitsTo(m, "peer-joined") = {}

C3_Witness ==
    /\ JoinAccepted
    /\ Cardinality(pre[last.roomId] \ {last.conn}) >= 2
    /\ Cardinality(EmitsNamed("peer-joined")) >= 2

SignalRelayed ==
    /\ last.kind \in SignalKinds
    /\ last.roomId \in RoomIds
    /\ last.payload \in Payloads

\* C4: an offer, answer or ice-candidate with a roomId and a payload reaches
\* every member of roomId other than the sender exactly once, under the same
\* event name, with the payload unchanged and participantId = sender, and
\* reaches neither the sender nor anybody outside the room.
C4_RelayToOthersOnly ==
    SignalRelayed =>
        /\ \A i \in DOMAIN out \ EmitsNamed("ack") :
              /\ out[i].ev = last.kind
              /\ out[i].payload = last.payload
              /\ out[i].participantId = last.conn
              /\ out[i].to # last.conn
              /\ out[i].to \in rooms[last.roomId]
        /\ \A m \in rooms[last.roomId] \ {last.conn} :
              Cardinality(EmitsTo(m, last.kind)) = 1
        /\ rooms = pre

C4_Witness ==
    /\ SignalRelayed
    /\ last.conn \in rooms[last.roomId]
    /\ last.payload = Desc("answer", 2, 1)
    /\ Cardinality(EmitsNamed(last.kind)) >= 2

SharedRooms(c, m) == {r \in RoomIds : c \in pre[r] /\ m \in pre[r]}

\* C6: when a connection disconnects, every other member of a room it still
\* belonged to gets exactly one peer-left with its id for that room, nobody
\* else (in particular the members of a room it had left) gets anything, and
\* afterwards the connection is a member of no room.
C6_DisconnectNotifiesOncePerRoom ==
    last.kind = "disconnecting" =>
        /\ \A i \in DOMAIN out :
              out[i].ev = "peer-left" /\ out[i].participantId = last.conn
        /\ \A m \in Conns \ {last.conn} :
              Cardinality(EmitsTo(m, "peer-left")) = Cardinality(SharedRooms(last.conn, m))
        /\ EmitsTo(last.conn, "peer-left") = {}
        /\ \A r \in RoomIds : last.conn \notin rooms[r]

\* a member of one room and not of the other disconnects; both rooms have others
C6_Witness ==
    /\ last.kind = "disconnecting"
    /\ \E r1, r2 \in RoomIds :
          /\ last.conn \in pre[r1] /\ pre[r1] # {last.conn}
          /\ last.conn \notin pre[r2] /\ pre[r2] # {}
    /\ out # <<>>

\* C5: no connection is a member of two rooms at once.
C5_AtMostOneRoom == \A c \in Conns : Cardinality(SocketRooms(rooms, c)) <= 1

\* C7: in one negotiation (one peer connection) at most one remote offer is
\* accepted as remote description.
C7_FirstOfferWins == \A c \in Clients : client[c].peer.remoteOffers <= 1

\* C8: a call of leaveRoom that follows another call of leaveRoom emits
\* nothing and changes nothing.
C8_SecondTeardownInert == \A c \in Clients : hist[c].sequel # "effect"

\* C9: a session that joined a room emits one leave for that room over its
\* lifetime: never two, and one once it has ended (end call, page exit,
\* unmount, failed peer transport).
C9_ExactlyOneLeave ==
    \A c \in Clients :
        /\ hist[c].leaves <= 1
        /\ hist[c].ended # "none" => hist[c].leaves = 1

\* C10: a client emits an offer only in reaction to a peer-joined it received:
\* it never has emitted more offers than it has received peer-joined events,
\* so a client that received none has emitted no offer.
C10_OffersFollowPeerJoined == \A c \in Clients : hist[c].offers <= hist[c].peerJoined

\* one client offered after a peer-joined; the other, which got no peer-joined,
\* answered and never offered
C10_Witness ==
    \E x, y \in Clients :
        /\ hist[x].peerJoined >= 1 /\ hist[x].offers >= 1
        /\ hist[y].peerJoined = 0 /\ hist[y].answers >= 1 /\ hist[y].offers = 0

\* C12: at most one reconnect attempt is pending at any time, whatever the
\* sequence of disconnect events: each disconnect cancels the attempt scheduled
\* before it and schedules one.
C12_OneReconnectPending == \A c \in Clients : Cardinality(client[c].timers) <= 1

\* the transport dropped again while an attempt was pending, and one is pending
C12_Witness ==
    \E c \in Clients : hist[c].recancel /\ Cardinality(client[c].timers) = 1

\* C13: once leaveRoom has run (status Idle, or the component unmounted) no
\* reconnect attempt is scheduled.
C13_TeardownCancelsTimer ==
    \A c \in Clients :
        (client[c].status = "Idle" \/ client[c].life = "unmounted") => client[c].timers = {}

\* C14: a join is emitted only on a connected socket: no join is emitted (and
\* held in the send buffer) while the socket is disconnected.
C14_JoinOnlyWhileConnected ==
    \A c \in Clients :
        \A i \in DOMAIN client[c].sendBuffer : client[c].sendBuffer[i].kind # "join"

\* C11: no client whose offer is not yet answered receives an offer from
\* another participant of its room.
C11_NoSimultaneousOffers == \A c \in Clients : ~hist[c].glare

C15_FailedThenRejoin == \A c \in Clients : hist[c].rejoin \notin {"kept", "rejected"}

\* the socket of client c dispatches the peer-joined of joiner in this step
SeesPeerJoined(c, joiner) ==
    /\ down[c] # <<>>
    /\ Head(down[c]).ev = "peer-joined"
    /\ Head(down[c]).participantId = joiner
    /\ down'[c] = Tail(down[c])
    /\ hist'[c].peerJoined = hist[c].peerJoined + 1

\* a joined-room reply of the relay has not been dispatched by client c yet
AwaitsJoinedRoom(c) == \E i \in DOMAIN down[c] : down[c][i].ev = "joined-room"

\* C16: no occupant observes the peer-joined of a join before the joiner has
\* observed a joined-room reply.
C16_ReplyBeforeBroadcast ==
    [][\A c, joiner \in Clients :
          SeesPeerJoined(c, joiner) => ~AwaitsJoinedRoom(joiner)]_vars

\* C17: a remote ICE candidate that arrives while the client has a transport is
\* applied to it (addIceCandidate does not reject it).
C17_CandidateApplied == \A c \in Clients : ~hist[c].iceRejected

\* C20: a client emits an offer or an answer only when that description is the
\* committed local description of its peer connection; none is emitted for a
\* description whose setLocalDescription is pending or was rejected.
C20_EmitAfterCommit == \A c \in Clients : ~hist[c].uncommitted

\* one client emitted an offer and the other an answer, and a client whose
\* setLocalDescription(offer) was rejected shows the error
C20_Witness ==
    \E x, y, z \in Clients :
        /\ hist[x].offers >= 1
        /\ hist[y].answers >= 1
        /\ client[z].error = "Unable to create an offer"

\* C18: toggleAudio and toggleVideo called while no call is active (isConnected
\* false or participants 0) change neither audioEnabled, videoEnabled nor the
\* enabled flag of a local track.
C18_TogglesInert == \A c \in Clients : hist[c].toggled # "changed"

\* the rooms the message handled last is about
TriggerRooms == IF last.kind = "disconnecting" THEN RoomIds ELSE {last.roomId} \cap RoomIds

\* C21: every peer-left, offer, answer and ice-candidate event delivered to a
\* member of a room carries the participantId of a connection that was a member
\* of that room when the relay processed the triggering message; a leave or
\* signal naming a room the sender is not in delivers nothing to its occupants.
C21_SenderWasMember ==
    \A i \in DOMAIN out :
        out[i].ev \in SignalKinds \cup {"peer-left"} =>
            SharedRooms(out[i].participantId, out[i].to) \cap TriggerRooms # {}

\* C22: a client accepts an answer as remote description only if the answer was
\* made for its own offer, also in a room of three or four where another
\* participant's offer is outstanding.
C22_AnswerToOwnOffer ==
    \A c \in Clients :
        client[c].peer.remote.type = "answer" => client[c].peer.remote.re = c

\* the participant whose description is the remote description of peer
\* connection p, NoConn if it has none
Partner(p) == p.remote.by

\* the socket of client c dispatches the peer-left of leaver in this step
SeesPeerLeft(c, leaver) ==
    /\ down[c] # <<>>
    /\ Head(down[c]).ev = "peer-left"
    /\ Head(down[c]).participantId = leaver
    /\ down'[c] = Tail(down[c])
    /\ client'[c].status = "Peer disconnected"

\* C23: a peer-left closes the client's peer transport only when the
\* participant that left is the one the transport was negotiated with: while
\* that participant is still in the room, the departure of a third participant
\* leaves the transport open and the remote media in place.
C23_ThirdPartyLeaveKeepsTransport ==
    [][\A c \in Clients, leaver \in Clients \cup Guests :
          /\ SeesPeerLeft(c, leaver)
          /\ Partner(client[c].peer) \notin {NoConn, leaver}
          /\ \E r \in RoomIds : {c, Partner(client[c].peer)} \subseteq rooms[r]
          => client'[c].peer.sig # "null" /\ client'[c].remoteStream]_vars

\* x offered once, y answered once, nothing else was offered or answered, and
\* the remote description of x is the answer of y to its offer
Negotiated(x, y) ==
    /\ hist[x].offers = 1 /\ hist[x].answers = 0
    /\ hist[y].offers = 0 /\ hist[y].answers = 1
    /\ client[x].peer.remote = Desc("answer", y, x)

\* the relay has handled the join of y into the room of x: the peer-joined of
\* y is on its way to x
JustJoined(x, y) ==
    /\ rooms["A"] = {x, y}
    /\ \E i \in DOMAIN down[x] :
          down[x][i].ev = "peer-joined" /\ down[x][i].participantId = y

\* C24: when y joins the room that x is the only member of, and nothing is
\* lost, nobody leaves and no transport fails, then exactly one offer (from x)
\* and one answer (from y) are sent and x eventually has the answer of y as its
\* remote description, for good.
C24_TwoPartyCallCompletes ==
    \A x, y \in Clients :
        (x # y /\ JustJoined(x, y)) ~> []Negotiated(x, y)

\* the call of the two clients is negotiated
C24_Witness == \E x, y \in Clients : rooms["A"] = {x, y} /\ Negotiated(x, y)

====
